---- MODULE Spec2Model ----
(***************************************************************************)
(* Model of the mystery-shopper audit service.                             *)
(*                                                                         *)
(*   src/server.py  progress_generator : the progress stream bridge        *)
(*   src/agent.py   ProductionAgent    : the audit pipeline                *)
(*                                                                         *)
(* All coroutines of one process run on one asyncio event loop.  The loop  *)
(* is modelled by its FIFO of ready callbacks (`ready`): a task step, the  *)
(* done-callback that asyncio.wait registers on a future, and the wake-up  *)
(* of the coroutine suspended in asyncio.wait.  What the loop cannot       *)
(* decide is left nondeterministic: when a thread-pool call returns and    *)
(* with what, when the HTTP consumer asks the generator for the next       *)
(* event, and when the wall clock passes to the next second.               *)
(***************************************************************************)
EXTENDS Integers, Sequences, FiniteSets, TLC

\* ---------------------------------------------------------------- bounds
NumRuns == 2          \* requests a process may serve in one behaviour
MaxClock == 2         \* seconds of wall clock the model distinguishes
MaxFindings == 2      \* length of the findings list the vision model returns
CoordStep == 20       \* spacing of the normalized coordinates tried
MaxDim == 3           \* image sides tried: 1..MaxDim pixels and 320, 640, .. 320 * MaxDim

Runs == 1..NumRuns
Stamps == 1..MaxClock

VARIABLES
    pending,      \* requests not yet received
    faults,       \* whether the collaborators may fail in this behaviour
    ready,        \* the event loop's FIFO of ready callbacks
    clock,        \* int(time.time())
    tmpdir,       \* tempfile.gettempdir(): audit_report_<stamp>.pdf files
    cwd,          \* working directory: temp_annotated_<stamp>.png files
    bpc,          \* progress_generator: where each generator is suspended
    out,          \* progress_generator: the events yielded so far
    queue,        \* asyncio.Queue: its items
    getters,      \* asyncio.Queue: get tasks suspended on an empty queue
    gets,         \* the queue.get() tasks created so far, in creation order
    waiterDone,   \* asyncio.wait: whether the current waiter future is set
    tst,          \* the agent.run task: where it is suspended
    tres,         \* the agent.run task: its result or exception
    fut,          \* result of the run_in_executor future the task awaited last
    logged,       \* ProductionAgent.log: messages printed so far
    stages,       \* pipeline stages entered so far
    visionCalled, \* whether generate_content was issued
    overlays,     \* findings drawn on the working image
    pdfIn,        \* create_pdf_report: its arguments and how the document came out
    work,         \* the stages' work begun so far, each with the messages logged before it
    blocked,      \* the run whose task step holds the loop's thread in a blocking call
    mapped        \* the coordinates of a finding being drawn and their pixel positions

vars == <<pending, faults, ready, clock, tmpdir, cwd, bpc, out, queue, getters,
          gets, waiterDone, tst, tres, fut, logged, stages, visionCalled,
          overlays, pdfIn, work, blocked, mapped>>

bridgeVars == <<bpc, out, gets, waiterDone>>
taskVars == <<tst, tres, fut, logged, stages, visionCalled, overlays, pdfIn, work>>
fileVars == <<clock, tmpdir, cwd>>

\* ------------------------------------------------------------- messages
Msg(tag, arg) == [tag |-> tag, arg |-> arg]

NoMsg == Msg("", "")

ProgressEvent(m) == [type |-> "progress", message |-> m, report_url |-> 0]

ErrorEvent(text) == [type |-> "error", message |-> Msg(text, ""), report_url |-> 0]

CompleteEvent(stamp) == [type |-> "complete", message |-> NoMsg, report_url |-> stamp]

IsTerminal(e) == e.type \in {"complete", "error"}

\* ----------------------------------------------------- callbacks of the loop
TaskStep(r) == [kind |-> "task", run |-> r, id |-> 0]

GetStep(r, i) == [kind |-> "get", run |-> r, id |-> i]

OnCompletion(r, w) == [kind |-> "on_completion", run |-> r, id |-> w]

WaiterWake(r) == [kind |-> "waiter", run |-> r, id |-> 0]

\* ------------------------------------------------------- collaborators
NoResult == [kind |-> "none", findings |-> <<>>]

Coords(some, val) == [some |-> some, val |-> val]

Finding(box, target) == [label_pos |-> box, target_pos |-> target]

ValidFinding == Finding(Coords(TRUE, <<100, 200, 300, 400>>), Coords(TRUE, <<500, 600>>))

FindingKinds ==
    { ValidFinding,
      Finding(Coords(FALSE, <<>>), Coords(TRUE, <<500, 600>>)),
      Finding(Coords(TRUE, <<>>), Coords(TRUE, <<500, 600>>)),
      Finding(Coords(TRUE, <<100, 200, 300>>), Coords(TRUE, <<500, 600>>)),
      Finding(Coords(TRUE, <<100, 200, 300, 400>>), Coords(FALSE, <<>>)),
      Finding(Coords(TRUE, <<100, 200, 300, 400>>), Coords(TRUE, <<500, 600, 700>>)) }

FindingLists == UNION { [1..n -> FindingKinds] : n \in 0..MaxFindings }

ScrapeOutcomes(f) ==
    {[kind |-> "url", findings |-> <<>>]} \cup
    (IF f THEN {[kind |-> "scrape_error", findings |-> <<>>],
                [kind |-> "no_url", findings |-> <<>>]}
          ELSE {})

DownloadOutcomes(f) == {"200"} \cup (IF f THEN {"status", "bad_image"} ELSE {})

VisionOutcomes(f) ==
    IF f THEN {[kind |-> "request_error", findings |-> <<>>],
               [kind |-> "malformed", findings |-> <<>>]} \cup
              {[kind |-> "parsed", findings |-> fs] : fs \in FindingLists}
         ELSE {[kind |-> "parsed", findings |-> <<ValidFinding>>]}

PdfOutcomes(f) ==
    {"ok"} \cup (IF f THEN {"temp_write_error", "image_error", "output_error"} ELSE {})

NoFile == [owner |-> 0, image |-> "none"]

NoPdf == [called |-> FALSE, full |-> NoResult, image |-> "none", result |-> "", temp |-> 0]

NoOutcome == [kind |-> "pending", path |-> 0, reason |-> ""]

Zero == [m |-> <<>>, e |-> 0]

NoMapping == [done |-> FALSE, min |-> 0, max |-> 0, dim |-> 1, lx |-> Zero, lcx |-> Zero]


\* ------------------------------------------------------------------ Init
InitWith(requests, f) ==
    /\ pending = requests
    /\ faults = f
    /\ ready = <<>>
    /\ clock = 1
    /\ tmpdir = [s \in Stamps |-> NoFile]
    /\ cwd = {}
    /\ bpc = [r \in Runs |-> "idle"]
    /\ out = [r \in Runs |-> <<>>]
    /\ queue = [r \in Runs |-> <<>>]
    /\ getters = [r \in Runs |-> <<>>]
    /\ gets = [r \in Runs |-> <<>>]
    /\ waiterDone = [r \in Runs |-> FALSE]
    /\ tst = [r \in Runs |-> "none"]
    /\ tres = [r \in Runs |-> NoOutcome]
    /\ fut = [r \in Runs |-> NoResult]
    /\ logged = [r \in Runs |-> <<>>]
    /\ stages = [r \in Runs |-> <<>>]
    /\ visionCalled = [r \in Runs |-> FALSE]
    /\ overlays = [r \in Runs |-> <<>>]
    /\ pdfIn = [r \in Runs |-> NoPdf]
    /\ work = [r \in Runs |-> <<>>]
    /\ blocked = 0

\* One request, collaborators free to fail.
Init == InitWith({1}, TRUE) /\ mapped = NoMapping

\* Every request of the process, collaborators answering normally.
InitConc == InitWith(Runs, FALSE) /\ mapped = NoMapping

\* ------------------------------------------------ progress_generator (bridge)
TaskDone(r) == tst[r] = "done"

\* The loop's thread is not inside a blocking call.
LoopFree == blocked = 0

\* The terminal event derived from the task's outcome.
TerminalEvent(res) ==
    IF res.kind = "path" THEN CompleteEvent(res.path)
    ELSE IF res.kind = "none" THEN ErrorEvent("Analysis failed")
    ELSE ErrorEvent(res.reason)

\* One pass of the while body up to its await: a fresh queue.get() task, then
\* asyncio.wait over it and the pipeline task.
NewIteration(r, rdy, taskDone) ==
    LET i == Len(gets[r]) + 1 IN
    /\ gets' = [gets EXCEPT ![r] = Append(@, [st |-> "new", res |-> NoMsg])]
    /\ waiterDone' = [waiterDone EXCEPT ![r] = FALSE]
    /\ bpc' = [bpc EXCEPT ![r] = "waiting"]
    /\ ready' = rdy \o <<GetStep(r, i)>> \o
                (IF taskDone THEN <<OnCompletion(r, i)>> ELSE <<>>)
    /\ out' = out

\* Mutant: the else branch of the result test is missing.
EmitTerminal_NoElse(r, rdy) ==
    /\ out' = [out EXCEPT ![r] =
                 IF tres[r].kind = "none" THEN @ ELSE Append(@, TerminalEvent(tres[r]))]
    /\ bpc' = [bpc EXCEPT ![r] = IF tres[r].kind = "none" THEN "closed" ELSE "terminal"]
    /\ ready' = rdy
    /\ UNCHANGED <<gets, waiterDone>>

\* After the loop: task.result() and the single terminal yield.
EmitTerminal(r, rdy) ==
    /\ out' = [out EXCEPT ![r] = Append(@, TerminalEvent(tres[r]))]
    /\ bpc' = [bpc EXCEPT ![r] = "terminal"]
    /\ ready' = rdy
    /\ UNCHANGED <<gets, waiterDone>>

\* Mutant: the loop stops as soon as the task is done, without draining.
BridgeContinue_NoDrain(r, rdy) ==
    IF TaskDone(r)
    THEN EmitTerminal(r, rdy)
    ELSE NewIteration(r, rdy, FALSE)

\* Mutant: the loop waits on the queue alone and never tests task.done().
BridgeContinue_QueueOnly(r, rdy) == NewIteration(r, rdy, FALSE)

\* The break test at the end of the while body followed by the while test.
BridgeContinue(r, rdy) ==
    IF TaskDone(r) /\ queue[r] = <<>>
    THEN EmitTerminal(r, rdy)
    ELSE NewIteration(r, rdy, TaskDone(r))

CtorOutcomes(f) ==
    {"ok"} \cup (IF f THEN {"Missing API Keys", "Error initializing AI clients"} ELSE {})

\* Mutant: the task is created before the agent is known to be usable.
Request_TaskFirst(r) ==
    /\ LoopFree
    /\ r \in pending
    /\ pending' = pending \ {r}
    /\ \E c \in CtorOutcomes(faults) :
         IF c = "ok"
         THEN /\ tst' = [tst EXCEPT ![r] = "new"]
              /\ NewIteration(r, Append(ready, TaskStep(r)), FALSE)
         ELSE /\ out' = [out EXCEPT ![r] = <<ErrorEvent(c)>>]
              /\ bpc' = [bpc EXCEPT ![r] = "terminal"]
              /\ tst' = [tst EXCEPT ![r] = "new"]
              /\ ready' = Append(ready, TaskStep(r))
              /\ UNCHANGED <<gets, waiterDone>>
    /\ UNCHANGED <<mapped, faults, queue, getters, tres, fut, logged, stages,
                   visionCalled, overlays, pdfIn, work, blocked, fileVars>>

\* A request arrives and the consumer pulls the first event: the generator
\* runs from its start to its first suspension.
Request(r) ==
    /\ LoopFree
    /\ r \in pending
    /\ pending' = pending \ {r}
    /\ \E c \in CtorOutcomes(faults) :
         IF c = "ok"
         THEN /\ tst' = [tst EXCEPT ![r] = "new"]
              /\ NewIteration(r, Append(ready, TaskStep(r)), FALSE)
         ELSE /\ out' = [out EXCEPT ![r] = <<ErrorEvent(c)>>]
              /\ bpc' = [bpc EXCEPT ![r] = "terminal"]
              /\ UNCHANGED <<tst, ready, gets, waiterDone>>
    /\ UNCHANGED <<mapped, faults, queue, getters, tres, fut, logged, stages,
                   visionCalled, overlays, pdfIn, work, blocked, fileVars>>

\* The consumer asks for the next event after a progress event.
ConsumerNext(r) ==
    /\ LoopFree
    /\ bpc[r] = "yielded"
    /\ BridgeContinue(r, ready)
    /\ UNCHANGED <<mapped, pending, faults, queue, getters, taskVars, blocked, fileVars>>

\* The consumer asks for the next event after the terminal one: the generator
\* returns.
ConsumerClose(r) ==
    /\ LoopFree
    /\ bpc[r] = "terminal"
    /\ bpc' = [bpc EXCEPT ![r] = "closed"]
    /\ UNCHANGED <<mapped, pending, faults, ready, out, gets, waiterDone, queue, getters,
                   taskVars, blocked, fileVars>>

\* Whether the wait that created get task i of run r still has its callbacks
\* registered.
WaitActive(r, i) == bpc[r] = "waiting" /\ i = Len(gets[r])

\* A step of a queue.get() task.
StepGet(r, i) ==
    /\ LoopFree
    /\ ready # <<>>
    /\ Head(ready) = GetStep(r, i)
    /\ IF queue[r] = <<>>
       THEN /\ getters' = [getters EXCEPT ![r] = Append(@, i)]
            /\ gets' = [gets EXCEPT ![r][i].st = "waiting"]
            /\ ready' = Tail(ready)
            /\ queue' = queue
       ELSE /\ queue' = [queue EXCEPT ![r] = Tail(@)]
            /\ gets' = [gets EXCEPT ![r][i] = [st |-> "done", res |-> Head(queue[r])]]
            /\ ready' = Tail(ready) \o
                        (IF WaitActive(r, i) THEN <<OnCompletion(r, i)>> ELSE <<>>)
            /\ getters' = getters
    /\ UNCHANGED <<mapped, pending, faults, bpc, out, waiterDone, taskVars, blocked, fileVars>>

\* asyncio.wait's _on_completion, called for a future of wait w.
RunOnCompletion(r, w) ==
    /\ LoopFree
    /\ ready # <<>>
    /\ Head(ready) = OnCompletion(r, w)
    /\ IF WaitActive(r, w) /\ ~waiterDone[r]
       THEN /\ waiterDone' = [waiterDone EXCEPT ![r] = TRUE]
            /\ ready' = Append(Tail(ready), WaiterWake(r))
       ELSE /\ ready' = Tail(ready)
            /\ waiterDone' = waiterDone
    /\ UNCHANGED <<mapped, pending, faults, bpc, out, gets, queue, getters, taskVars, blocked,
                   fileVars>>

\* The generator resumes from asyncio.wait and runs the for loop over `done`.
WakeBridge(r) ==
    /\ LoopFree
    /\ ready # <<>>
    /\ Head(ready) = WaiterWake(r)
    /\ bpc[r] = "waiting"
    /\ LET g == gets[r][Len(gets[r])] IN
       IF g.st = "done"
       THEN /\ out' = [out EXCEPT ![r] = Append(@, ProgressEvent(g.res))]
            /\ bpc' = [bpc EXCEPT ![r] = "yielded"]
            /\ ready' = Tail(ready)
            /\ UNCHANGED <<gets, waiterDone>>
       ELSE BridgeContinue(r, Tail(ready))
    /\ UNCHANGED <<mapped, pending, faults, queue, getters, taskVars, blocked, fileVars>>


\* ------------------------------------------------ ProductionAgent (pipeline)
Min(a, b) == IF a < b THEN a ELSE b

\* ProductionAgent.log for each message of msgs in turn: print, then the
\* callback's queue.put, which hands a waiting getter its wake-up.  `finished`
\* tells whether the task returns or raises at the end of this step.
Emit(r, rdy, msgs, finished) ==
    LET k == Min(Len(getters[r]), Len(msgs)) IN
    /\ logged' = [logged EXCEPT ![r] = @ \o msgs]
    /\ queue' = [queue EXCEPT ![r] = @ \o msgs]
    /\ getters' = [getters EXCEPT ![r] = SubSeq(@, k + 1, Len(@))]
    /\ ready' = rdy \o [j \in 1..k |-> GetStep(r, getters[r][j])] \o
                (IF finished /\ bpc[r] = "waiting"
                 THEN <<OnCompletion(r, Len(gets[r]))>> ELSE <<>>)

\* The task returns `path`, returns None, or raises.
Returned(path) == [kind |-> "path", path |-> path, reason |-> ""]

ReturnedNone == [kind |-> "none", path |-> 0, reason |-> ""]

Raised(reason) == [kind |-> "exc", path |-> 0, reason |-> reason]

Truthy(c) == c.some /\ Len(c.val) > 0

\* The for loop over the findings: [ok, drawn], ok FALSE when an item raised.
RECURSIVE DrawFrom(_, _, _)
DrawFrom(fs, i, drawn) ==
    IF i > Len(fs) THEN [ok |-> TRUE, drawn |-> drawn]
    ELSE IF Truthy(fs[i].label_pos) /\ Truthy(fs[i].target_pos)
         THEN IF Len(fs[i].label_pos.val) # 4 \/ Len(fs[i].target_pos.val) # 2
              THEN [ok |-> FALSE, drawn |-> drawn]
              ELSE DrawFrom(fs, i + 1, Append(drawn, i))
         ELSE DrawFrom(fs, i + 1, drawn)

DrawAnnotations(fs) == DrawFrom(fs, 1, <<>>)

EmptyData == [kind |-> "empty", findings |-> <<>>]

OriginalImage == [kind |-> "original", overlays |-> <<>>]

AnnotatedImage(drawn) == [kind |-> "annotated", overlays |-> drawn]

\* The outcome of embedding the image: what pdf.image's handler lets through.
ImageEmbedded(o) == IF o = "image_error" THEN "missing" ELSE "embedded"

\* Mutant: pdf.output sits inside the try block that guards pdf.image.
PdfRaises_OutputGuarded(o) == o = "temp_write_error"

\* Whether create_pdf_report raises on document outcome o.
PdfRaises(o) == o \in {"temp_write_error", "output_error"}

\* The report's file name for the second the clock shows.
ReportName(t) == t

\* A stage's work begun after n messages were logged.
Work(stage, op, n) == [stage |-> stage, op |-> op, at |-> n]

\* run() from "Generating PDF Report..." on, with create_pdf_report inlined.
\* entered, pre, did: the stages entered, the messages logged and the work begun
\* earlier in the same step.
Assemble(r, rdy, entered, pre, did, full, image) ==
    \E o \in PdfOutcomes(faults), t2 \in {clock, Min(clock + 1, MaxClock)} :
        LET t1 == ReportName(clock)
            gen == Msg("generating_pdf", "")
        IN
        /\ stages' = [stages EXCEPT ![r] = @ \o entered \o <<"Assembling">>]
        /\ work' = [work EXCEPT ![r] =
                      @ \o did \o
                      <<Work("Assembling", "document", Len(logged[r]) + Len(pre) + 1)>>]
        /\ pdfIn' = [pdfIn EXCEPT ![r] =
                       [called |-> TRUE, full |-> full, image |-> image, result |-> o,
                        temp |-> t2]]
        /\ clock' = t2
        /\ tst' = [tst EXCEPT ![r] = "done"]
        /\ fut' = fut
        /\ IF PdfRaises(o)
           THEN /\ tres' = [tres EXCEPT ![r] = Raised(o)]
                /\ cwd' = IF o = "output_error" THEN cwd \cup {t2} ELSE cwd
                /\ tmpdir' = tmpdir
                /\ Emit(r, rdy, Append(pre, gen), TRUE)
           ELSE /\ tres' = [tres EXCEPT ![r] = Returned(t1)]
                /\ cwd' = cwd \ {t2}
                /\ tmpdir' = [tmpdir EXCEPT ![t1] = [owner |-> r, image |-> ImageEmbedded(o)]]
                /\ Emit(r, rdy, pre \o <<gen, Msg("report_generated", ToString(t1))>>, TRUE)

\* Mutant: the failure branches return without logging anything.
CaptureFailed_Silent(r, rdy, pre, reason) ==
    /\ tst' = [tst EXCEPT ![r] = "done"]
    /\ tres' = [tres EXCEPT ![r] = ReturnedNone]
    /\ fut' = fut
    /\ Emit(r, rdy, <<>>, TRUE)
    /\ UNCHANGED <<stages, visionCalled, overlays, pdfIn, work, fileVars>>

\* Mutant: run() does not test image_bytes and goes on to the report.
CaptureFailed_Continues(r, rdy, pre, reason) ==
    /\ Assemble(r, rdy, <<>>, Append(pre, Msg("firecrawl_error", reason)), <<>>,
                EmptyData, OriginalImage)
    /\ UNCHANGED <<visionCalled, overlays>>

\* The else branch of run(): capture failed.
CaptureFailed(r, rdy, pre, reason) ==
    /\ tst' = [tst EXCEPT ![r] = "done"]
    /\ tres' = [tres EXCEPT ![r] = ReturnedNone]
    /\ fut' = fut
    /\ Emit(r, rdy, pre \o <<Msg("firecrawl_error", reason), Msg("capture_failed", "")>>, TRUE)
    /\ UNCHANGED <<stages, visionCalled, overlays, pdfIn, work, fileVars>>

\* Mutant: get_screenshot starts the scrape without announcing it.
RunStart_NoCaptureLog(r) ==
    /\ LoopFree
    /\ ready # <<>>
    /\ Head(ready) = TaskStep(r)
    /\ tst[r] = "new"
    /\ tst' = [tst EXCEPT ![r] = "scrape"]
    /\ stages' = [stages EXCEPT ![r] = Append(@, "Capturing")]
    /\ work' = [work EXCEPT ![r] = Append(@, Work("Capturing", "scrape", Len(logged[r]) + 1))]
    /\ Emit(r, Tail(ready), <<Msg("start", "")>>, FALSE)
    /\ UNCHANGED <<mapped, pending, faults, bridgeVars, tres, fut, visionCalled, overlays,
                   pdfIn, blocked, fileVars>>

\* First step of the task: run() up to the scrape handed to the executor.
RunStart(r) ==
    /\ LoopFree
    /\ ready # <<>>
    /\ Head(ready) = TaskStep(r)
    /\ tst[r] = "new"
    /\ tst' = [tst EXCEPT ![r] = "scrape"]
    /\ stages' = [stages EXCEPT ![r] = Append(@, "Capturing")]
    /\ work' = [work EXCEPT ![r] = Append(@, Work("Capturing", "scrape", Len(logged[r]) + 2))]
    /\ Emit(r, Tail(ready), <<Msg("start", ""), Msg("capturing", "")>>, FALSE)
    /\ UNCHANGED <<mapped, pending, faults, bridgeVars, tres, fut, visionCalled, overlays,
                   pdfIn, blocked, fileVars>>

\* The executor thread finishes the scrape.
ScrapeReturns(r) ==
    /\ tst[r] = "scrape"
    /\ fut[r] = NoResult
    /\ \E o \in ScrapeOutcomes(faults) : fut' = [fut EXCEPT ![r] = o]
    /\ ready' = Append(ready, TaskStep(r))
    /\ UNCHANGED <<mapped, pending, faults, bridgeVars, queue, getters, tst, tres, logged,
                   stages, visionCalled, overlays, pdfIn, work, blocked, fileVars>>

\* The task resumes with the scrape's result: get_screenshot up to
\* requests.get, which is called on the loop's thread.
AfterScrape(r) ==
    /\ LoopFree
    /\ ready # <<>>
    /\ Head(ready) = TaskStep(r)
    /\ tst[r] = "scrape"
    /\ IF fut[r].kind # "url"
       THEN /\ CaptureFailed(r, Tail(ready), <<>>, fut[r].kind)
            /\ blocked' = blocked
       ELSE /\ tst' = [tst EXCEPT ![r] = "download"]
            /\ blocked' = r
            /\ work' = [work EXCEPT ![r] =
                          Append(@, Work("Capturing", "download", Len(logged[r]) + 1))]
            /\ Emit(r, Tail(ready), <<Msg("url_obtained", "")>>, FALSE)
            /\ UNCHANGED <<tres, fut, stages, visionCalled, overlays, pdfIn, fileVars>>
    /\ UNCHANGED <<mapped, pending, faults, bridgeVars>>

\* requests.get returns: the rest of get_screenshot, then run() and
\* analyze_and_annotate up to the vision call handed to the executor.
DownloadReturns(r) ==
    /\ blocked = r
    /\ tst[r] = "download"
    /\ blocked' = 0
    /\ \E d \in DownloadOutcomes(faults) :
         CASE d = "status" ->
                CaptureFailed(r, ready, <<>>, "download_status")
           [] d = "200" ->
                /\ tst' = [tst EXCEPT ![r] = "vision"]
                /\ fut' = [fut EXCEPT ![r] = NoResult]
                /\ stages' = [stages EXCEPT ![r] = Append(@, "Analyzing")]
                /\ visionCalled' = [visionCalled EXCEPT ![r] = TRUE]
                /\ work' = [work EXCEPT ![r] =
                              Append(@, Work("Analyzing", "vision", Len(logged[r]) + 1))]
                /\ Emit(r, ready, <<Msg("analyzing", "")>>, FALSE)
                /\ UNCHANGED <<tres, overlays, pdfIn, fileVars>>
           [] d = "bad_image" ->
                /\ Assemble(r, ready, <<"Analyzing">>,
                            <<Msg("analyzing", ""), Msg("gemini_error", "image")>>, <<>>,
                            EmptyData, OriginalImage)
                /\ UNCHANGED <<visionCalled, overlays>>
    /\ UNCHANGED <<mapped, pending, faults, bridgeVars>>

\* The executor thread finishes generate_content.
VisionReturns(r) ==
    /\ tst[r] = "vision"
    /\ fut[r] = NoResult
    /\ \E o \in VisionOutcomes(faults) : fut' = [fut EXCEPT ![r] = o]
    /\ ready' = Append(ready, TaskStep(r))
    /\ UNCHANGED <<mapped, pending, faults, bridgeVars, queue, getters, tst, tres, logged,
                   stages, visionCalled, overlays, pdfIn, work, blocked, fileVars>>

\* Mutant: the handler hands on the response it could not use.
Annotate_KeepsResponse(resp) ==
    IF resp.kind # "parsed"
    THEN [msgs |-> <<Msg("gemini_error", resp.kind)>>, full |-> resp,
          image |-> OriginalImage, drawn |-> <<>>, rendered |-> FALSE]
    ELSE LET d == DrawAnnotations(resp.findings) IN
         [msgs |-> <<Msg("drawing", "")>>, full |-> resp,
          image |-> AnnotatedImage(d.drawn), drawn |-> d.drawn, rendered |-> TRUE]

\* Mutant: the drawing stage is announced before the response is parsed.
Annotate_DrawsFirst(resp) ==
    IF resp.kind # "parsed"
    THEN [msgs |-> <<Msg("drawing", ""), Msg("gemini_error", resp.kind)>>,
          full |-> EmptyData, image |-> OriginalImage, drawn |-> <<>>, rendered |-> TRUE]
    ELSE LET d == DrawAnnotations(resp.findings) IN
         [msgs |-> <<Msg("drawing", "")>>, full |-> resp,
          image |-> AnnotatedImage(d.drawn), drawn |-> d.drawn, rendered |-> TRUE]

\* What analyze_and_annotate returns and logs once the response is in:
\* [msgs, full, image, drawn, rendered].
Annotate(resp) ==
    IF resp.kind # "parsed"
    THEN [msgs |-> <<Msg("gemini_error", resp.kind)>>, full |-> EmptyData,
          image |-> OriginalImage, drawn |-> <<>>, rendered |-> FALSE]
    ELSE LET d == DrawAnnotations(resp.findings) IN
         IF d.ok
         THEN [msgs |-> <<Msg("drawing", "")>>, full |-> resp,
               image |-> AnnotatedImage(d.drawn), drawn |-> d.drawn, rendered |-> TRUE]
         ELSE [msgs |-> <<Msg("drawing", ""), Msg("gemini_error", "annotation")>>,
               full |-> EmptyData, image |-> OriginalImage, drawn |-> d.drawn,
               rendered |-> TRUE]

\* The task resumes with the vision response: the rest of analyze_and_annotate,
\* then run() to its end.
AfterVision(r) ==
    /\ LoopFree
    /\ ready # <<>>
    /\ Head(ready) = TaskStep(r)
    /\ tst[r] = "vision"
    /\ LET a == Annotate(fut[r]) IN
       /\ overlays' = [overlays EXCEPT ![r] = a.drawn]
       /\ Assemble(r, Tail(ready), IF a.rendered THEN <<"Rendering">> ELSE <<>>,
                   a.msgs,
                   IF a.rendered
                   THEN <<Work("Rendering", "draw", Len(logged[r]) + 1)>> ELSE <<>>,
                   a.full, a.image)
    /\ UNCHANGED <<mapped, pending, faults, bridgeVars, visionCalled, blocked>>

\* The wall clock passes to the next second.
Tick ==
    /\ clock < MaxClock
    /\ clock' = clock + 1
    /\ UNCHANGED <<mapped, pending, faults, ready, tmpdir, cwd, bridgeVars, queue, getters,
                   taskVars, blocked>>

\* ------------------------------------- Python numbers: int / int, float * int
\* A natural number of any size, as its digits in base 2^15, least significant first.
Base == 2^15

Limb(b, i) == IF i \in 1..Len(b) THEN b[i] ELSE 0

RECURSIVE Norm(_)
Norm(b) == IF b = <<>> \/ b[Len(b)] # 0 THEN b ELSE Norm(SubSeq(b, 1, Len(b) - 1))

Digits(n) == Norm(<<n % Base, (n \div Base) % Base, n \div (Base * Base)>>)

\* The 15 binary digits of b from position pos up, position 0 the lowest.
LimbAt(b, pos) ==
    LET q == pos \div 15
        t == pos % 15
    IN  (Limb(b, q + 1) \div 2^t) + (Limb(b, q + 2) % 2^t) * 2^(15 - t)

BitAt(b, pos) == LimbAt(b, pos) % 2

\* b * 2^n, rounded down when n < 0
Shift(b, n) ==
    LET len == Len(b) + (n \div 15) + 1
    IN  Norm([j \in 1..(IF len > 0 THEN len ELSE 0) |-> LimbAt(b, 15 * (j - 1) - n)])

Width(x) == CHOOSE n \in 1..15 : 2^(n - 1) <= x /\ x < 2^n

BitLen(b) == IF b = <<>> THEN 0 ELSE 15 * (Len(b) - 1) + Width(b[Len(b)])

\* (the digits of b from the i-th up) * k + carry
RECURSIVE TimesFrom(_, _, _, _)
TimesFrom(b, i, k, carry) ==
    IF i > Len(b) THEN Digits(carry)
    ELSE LET t == b[i] * k + carry
         IN  <<t % Base>> \o TimesFrom(b, i + 1, k, t \div Base)

TimesSmall(b, k) == Norm(TimesFrom(b, 1, k, 0))

RECURSIVE PlusFrom(_, _, _, _)
PlusFrom(a, b, i, carry) ==
    IF i > Len(a) /\ i > Len(b) THEN Digits(carry)
    ELSE LET t == Limb(a, i) + Limb(b, i) + carry
         IN  <<t % Base>> \o PlusFrom(a, b, i + 1, t \div Base)

Plus(a, b) == Norm(PlusFrom(a, b, 1, 0))

\* a - b, for a >= b
RECURSIVE MinusFrom(_, _, _, _)
MinusFrom(a, b, i, borrow) ==
    IF i > Len(a) THEN <<>>
    ELSE LET t == a[i] - Limb(b, i) - borrow
         IN  <<(t + Base) % Base>> \o MinusFrom(a, b, i + 1, IF t < 0 THEN 1 ELSE 0)

Minus(a, b) == Norm(MinusFrom(a, b, 1, 0))

RECURSIVE TopLE(_, _, _)
TopLE(a, b, i) ==
    IF i = 0 THEN TRUE
    ELSE IF a[i] = b[i] THEN TopLE(a, b, i - 1)
    ELSE a[i] < b[i]

LessEq(a, b) == Len(a) < Len(b) \/ (Len(a) = Len(b) /\ TopLE(a, b, Len(a)))

\* A float is m * 2^e, m of 53 binary digits with the highest one set (Zero apart).
\* Round is the float nearest to b * 2^e, ties to the even one; sticky says
\* that the exact value lies above b * 2^e by less than 2^e.
Round(b, e, sticky) ==
    IF b = <<>> THEN Zero
    ELSE LET s == BitLen(b) - 53
             keep == Shift(b, 0 - s)
             more == sticky \/ \E p \in 0..(s - 2) : BitAt(b, p) = 1
             up == s > 0 /\ BitAt(b, s - 1) = 1 /\ (more \/ BitAt(b, s) = 1)
             k2 == IF up THEN Plus(keep, <<1>>) ELSE keep
         IN  IF BitLen(k2) = 54 THEN [m |-> Shift(k2, 0 - 1), e |-> e + s + 1]
             ELSE [m |-> k2, e |-> e + s]

\* Long division: count more digits of rem / k, and what is left over.
RECURSIVE Fraction(_, _, _)
Fraction(rem, k, count) ==
    IF count = 0 THEN [limbs |-> <<>>, rem |-> rem]
    ELSE LET t == rem * Base
             rest == Fraction(t % k, k, count - 1)
         IN  [limbs |-> Append(rest.limbs, t \div k), rem |-> rest.rem]

\* n / k of two ints
TrueDiv(n, k) ==
    IF n = 0 THEN Zero
    ELSE LET f == Fraction(n % k, k, 6)
         IN  Round(Norm(f.limbs \o Digits(n \div k)), 0 - 90, f.rem # 0)

\* x * d of a float and an int
Times(x, d) == Round(TimesSmall(x.m, d), x.e, FALSE)

\* --------------------------------------------- analyze_and_annotate: pixels
ToPixels_Percent(c, d) == Times(TrueDiv(c, 100), d)

\* lx, ly, tx, ty
ToPixels(c, d) == Times(TrueDiv(c, 1000), d)

\* lcx, lcy
BoxCenter(lo, hi, d) == Times(TrueDiv(lo + hi, 2000), d)

\* The coordinates the vision model is asked for, and the sides of an image.
Normalized == {c \in 0..1000 : c % CoordStep = 0 \/ c \in {1, 999, 1000}}

Dimensions == (1..MaxDim) \cup {320 * k : k \in 1..MaxDim}

\* One axis of a finding's label box is converted to pixels.
MapCoordinates ==
    /\ ~mapped.done
    /\ mapped' = [mapped EXCEPT !.done = TRUE,
                                !.lx = ToPixels(mapped.min, mapped.dim),
                                !.lcx = BoxCenter(mapped.min, mapped.max, mapped.dim)]
    /\ UNCHANGED <<pending, faults, ready, fileVars, bridgeVars, queue, getters,
                   taskVars, blocked>>

\* ------------------------------------------------------------------ Next
Next ==
    \/ \E r \in Runs : Request(r)
    \/ \E r \in Runs : ConsumerNext(r)
    \/ \E r \in Runs : ConsumerClose(r)
    \/ \E r \in Runs : \E i \in 1..Len(gets[r]) : StepGet(r, i)
    \/ \E r \in Runs : \E w \in 1..Len(gets[r]) : RunOnCompletion(r, w)
    \/ \E r \in Runs : WakeBridge(r)
    \/ \E r \in Runs : RunStart(r)
    \/ \E r \in Runs : ScrapeReturns(r)
    \/ \E r \in Runs : AfterScrape(r)
    \/ \E r \in Runs : DownloadReturns(r)
    \/ \E r \in Runs : VisionReturns(r)
    \/ \E r \in Runs : AfterVision(r)
    \/ Tick

Spec == Init /\ [][Next]_vars

SpecConc == InitConc /\ [][Next]_vars

\* The event loop runs a ready callback whenever there is one, and the consumer
\* keeps reading the stream.
LoopStep ==
    \E r \in Runs :
        \/ \E i \in 1..Len(gets[r]) : StepGet(r, i) \/ RunOnCompletion(r, i)
        \/ WakeBridge(r) \/ RunStart(r) \/ AfterScrape(r) \/ AfterVision(r)

Consume == \E r \in Runs : ConsumerNext(r) \/ ConsumerClose(r)

FairSpec == Spec /\ WF_vars(LoopStep) /\ WF_vars(Consume)

\* The drawing of one finding, for every box and image size in range.
InitMap ==
    /\ InitWith({}, FALSE)
    /\ mapped \in {[NoMapping EXCEPT !.min = lo, !.max = hi, !.dim = d] :
                     lo \in Normalized, hi \in Normalized, d \in Dimensions}

NextMap == MapCoordinates

SpecMap == InitMap /\ [][NextMap]_vars


\* ================================================================ claims
Last(q) == q[Len(q)]

Ended(r) == bpc[r] \in {"terminal", "closed"}

Terminals(r) == {i \in 1..Len(out[r]) : IsTerminal(out[r][i])}

HasLogged(r, tag) == \E i \in 1..Len(logged[r]) : logged[r][i].tag = tag

\* C1: the events the bridge has yielded are the pipeline's messages in emission
\* order, none dropped, duplicated or reordered; a terminal event comes only
\* after every message the pipeline logged, is the last event, and a stream
\* that has ended ends with one.
C1_OrderedDelivery ==
    \A r \in Runs :
        LET o == out[r] IN
        /\ \A i \in 1..Len(o) :
             o[i].type = "progress" =>
                 i <= Len(logged[r]) /\ o[i].message = logged[r][i]
        /\ \A i \in 1..Len(o) :
             IsTerminal(o[i]) =>
                 /\ i = Len(o)
                 /\ i = Len(logged[r]) + 1
                 /\ tst[r] \in {"none", "done"}
                 /\ queue[r] = <<>>
        /\ Ended(r) => (o # <<>> /\ IsTerminal(Last(o)))

\* C1 witness: a run whose last step logged several messages and finished at
\* once, so that completion was there before they were dequeued, has ended.
C1_Witness ==
    \E r \in Runs :
        /\ bpc[r] = "closed"
        /\ tres[r].kind = "path"
        /\ Len(out[r]) = Len(logged[r]) + 1
        /\ Len(logged[r]) >= 7

\* C2: a stream consumed to its end holds exactly one terminal event, its last:
\* complete with the report's reference when the task returned a path, error
\* with a message when the agent could not be built, the task returned nothing
\* or the task raised.
C2_ExactlyOneTerminal ==
    \A r \in Runs :
        bpc[r] = "closed" =>
            /\ Cardinality(Terminals(r)) = 1
            /\ out[r] # <<>>
            /\ LET e == Last(out[r]) IN
               /\ IsTerminal(e)
               /\ e.type = "complete" <=> tres[r].kind = "path"
               /\ e.type = "complete" => e.report_url = tres[r].path /\ e.report_url \in Stamps
               /\ e.type = "error" => e.message.tag # "" /\ e.report_url = 0
               /\ tres[r].kind = "exc" => e = ErrorEvent(tres[r].reason)
               /\ tst[r] = "none" => e.message.tag \in CtorOutcomes(TRUE) \ {"ok"}

\* C2 witness: a stream consumed to its end after the task raised.
C2_Witness == \E r \in Runs : bpc[r] = "closed" /\ tres[r].kind = "exc"

\* C3: once the pipeline task has terminated, the bridge eventually emits the
\* terminal event with the queue drained.
C3_BridgeTerminates ==
    \A r \in Runs : TaskDone(r) ~> (Ended(r) /\ queue[r] = <<>>)

\* C3 witness: the task has terminated while the bridge is suspended in
\* asyncio.wait with messages still queued.
C3_Witness ==
    \E r \in Runs :
        TaskDone(r) /\ bpc[r] = "waiting" /\ ~waiterDone[r] /\ Len(queue[r]) >= 2

\* C4: when capture failed, the terminal error event carries the reason of the
\* capture failure.
C4_TerminalCarriesCaptureReason ==
    \A r \in Runs :
        \A i \in 1..Len(logged[r]) :
            (logged[r][i].tag = "firecrawl_error" /\ Ended(r)) =>
                Last(out[r]) = ErrorEvent(logged[r][i].arg)

\* C5: when capture failed, the task returns nothing and no later stage ran:
\* no vision call, no drawing, no document, no report file.
C5_NoStageAfterCaptureFailure ==
    \A r \in Runs :
        HasLogged(r, "firecrawl_error") =>
            /\ tres[r] = ReturnedNone
            /\ stages[r] = <<"Capturing">>
            /\ ~visionCalled[r]
            /\ overlays[r] = <<>>
            /\ ~pdfIn[r].called
            /\ \A t \in Stamps : tmpdir[t].owner # r

\* C5 witness: a run whose screenshot download failed has ended.
C5_Witness ==
    \E r \in Runs :
        /\ bpc[r] = "closed"
        /\ \E i \in 1..Len(logged[r]) : logged[r][i] = Msg("firecrawl_error", "download_status")

AnalysisFailed(r) ==
    \E i \in 1..Len(logged[r]) :
        logged[r][i].tag = "gemini_error" /\ logged[r][i].arg \in {"request_error", "malformed"}

\* C6: when capture succeeded and the vision request failed or its output was
\* malformed, the document generator is called with an empty analysis and the
\* captured image as it is, and the run ends in complete unless the document
\* generator itself raised.
C6_AnalysisFailureIsSoft ==
    \A r \in Runs :
        AnalysisFailed(r) =>
            /\ pdfIn[r].called
            /\ pdfIn[r].full = EmptyData
            /\ pdfIn[r].image = OriginalImage
            /\ tres[r].kind \in {"path", "exc"}
            /\ tres[r].kind = "exc" => PdfRaises(pdfIn[r].result)
            /\ (Ended(r) /\ tres[r].kind = "path") => Last(out[r]).type = "complete"

\* C6 witness: a run whose vision output was malformed has ended in complete.
C6_Witness ==
    \E r \in Runs :
        /\ Ended(r)
        /\ fut[r].kind = "malformed"
        /\ Last(out[r]).type = "complete"

DocumentFailures == {"temp_write_error", "image_error", "output_error"}

WellFormed(f) ==
    /\ f.label_pos.some /\ Len(f.label_pos.val) = 4
    /\ f.target_pos.some /\ Len(f.target_pos.val) = 2

RECURSIVE WellFormedFrom(_, _)
WellFormedFrom(fs, i) ==
    IF i > Len(fs) THEN <<>>
    ELSE (IF WellFormed(fs[i]) THEN <<i>> ELSE <<>>) \o WellFormedFrom(fs, i + 1)

\* C8: for a parsed analysis, the image handed to the document generator shows
\* exactly the well-formed findings, in list order; the others are skipped.
C8_MalformedFindingSkipped ==
    \A r \in Runs :
        (pdfIn[r].called /\ fut[r].kind = "parsed") =>
            pdfIn[r].image.overlays = WellFormedFrom(fut[r].findings, 1)

\* Retrieval of a report by the reference a complete event carries.
download_file(filename) == tmpdir[filename]

\* C9: the reference a run's complete event carries retrieves the report that
\* run produced, and two runs never return the same reference.
C9_RunsShareNothing ==
    /\ \A r \in Runs :
         (Ended(r) /\ Last(out[r]).type = "complete") =>
             download_file(Last(out[r]).report_url).owner = r
    /\ \A r1, r2 \in Runs :
         (r1 # r2 /\ tres[r1].kind = "path" /\ tres[r2].kind = "path") =>
             tres[r1].path # tres[r2].path

AllStages == <<"Capturing", "Analyzing", "Rendering", "Assembling">>

IsPrefix(p, q) == Len(p) <= Len(q) /\ \A i \in 1..Len(p) : p[i] = q[i]

\* C10 as claimed: a run whose capture succeeded enters Capturing, Analyzing,
\* Rendering, Assembling in that order, Rendering always among them.
C10_RenderingAlwaysEntered ==
    \A r \in Runs :
        (TaskDone(r) /\ tres[r].kind # "none") => stages[r] = AllStages

\* C10 amended: the stages are entered in the order Capturing, Analyzing,
\* Rendering, Assembling, each at most once; Rendering is entered only after
\* Analyzing and only when the vision output parsed; when the analysis failed
\* the run goes from Analyzing straight to Assembling.
C10_StagesInOrder ==
    \A r \in Runs :
        /\ \/ IsPrefix(stages[r], AllStages)
           \/ stages[r] = <<"Capturing", "Analyzing", "Assembling">>
        /\ (TaskDone(r) /\ tres[r].kind # "none") =>
             stages[r] = IF fut[r].kind = "parsed"
                         THEN AllStages
                         ELSE <<"Capturing", "Analyzing", "Assembling">>

\* C10 witness: a run whose vision request failed has finished, Rendering
\* never entered.
C10_Witness ==
    \E r \in Runs :
        /\ TaskDone(r)
        /\ fut[r].kind = "request_error"
        /\ stages[r] = <<"Capturing", "Analyzing", "Assembling">>


\* C12: whenever the vision output parsed, the document generator is handed the
\* summary and findings the model returned, whatever happened while drawing.
C12_NarrativeSurvivesRenderFailure ==
    \A r \in Runs :
        (pdfIn[r].called /\ fut[r].kind = "parsed") => pdfIn[r].full = fut[r]

\* C13: once a run that entered Assembling has terminated, the temporary image
\* file written for the document generator is gone.
C13_TempImageRemoved ==
    \A r \in Runs :
        (TaskDone(r) /\ pdfIn[r].called) => pdfIn[r].temp \notin cwd

CtorErrors == CtorOutcomes(TRUE) \ {"ok"}

CtorFailed(r) ==
    /\ out[r] # <<>>
    /\ out[r][1].type = "error"
    /\ out[r][1].message.tag \in CtorErrors

\* C15: when the agent cannot be built the stream is one error event carrying
\* the construction error; no task is created, nothing is put on the queue, no
\* stage runs.
C15_CtorFailureOnlyError ==
    \A r \in Runs :
        CtorFailed(r) =>
            /\ Len(out[r]) = 1
            /\ Ended(r)
            /\ tst[r] = "none"
            /\ tres[r] = NoOutcome
            /\ gets[r] = <<>>
            /\ logged[r] = <<>>
            /\ queue[r] = <<>>
            /\ stages[r] = <<>>
            /\ ~visionCalled[r]
            /\ ~pdfIn[r].called
            /\ \A k \in 1..Len(ready) : ready[k].run # r

\* C15 witness: a stream whose agent could not be built has been consumed to
\* its end.
C15_Witness ==
    \E r \in Runs : bpc[r] = "closed" /\ out[r] = <<ErrorEvent("Missing API Keys")>>

PendingGets(r) == {i \in 1..Len(gets[r]) : gets[r][i].st # "done"}

\* C17: a run never has more than one queue.get() task that has not completed,
\* none is pending once the terminal event is emitted, and every message a get
\* task took from the queue is yielded, at the position of the get task.
C17_OneGetAtATime ==
    \A r \in Runs :
        /\ Cardinality(PendingGets(r)) <= 1
        /\ PendingGets(r) \subseteq {Len(gets[r])}
        /\ Ended(r) => PendingGets(r) = {}
        /\ \A i \in 1..Len(gets[r]) :
             gets[r][i].st = "done" =>
                 \/ i <= Len(out[r]) /\ out[r][i] = ProgressEvent(gets[r][i].res)
                 \/ i = Len(gets[r]) /\ bpc[r] = "waiting"

\* C17 witness: a successful run has ended after a get task for each message.
C17_Witness ==
    \E r \in Runs :
        /\ Ended(r)
        /\ tres[r].kind = "path"
        /\ Len(gets[r]) >= 7
        /\ \E i \in 1..Len(gets[r]) : gets[r][i].st = "done"


\* The message that announces a stage.
StageTag(stage) ==
    CASE stage = "Capturing" -> "capturing"
      [] stage = "Analyzing" -> "analyzing"
      [] stage = "Rendering" -> "drawing"
      [] stage = "Assembling" -> "generating_pdf"

Announcements(r, stage) == {i \in 1..Len(logged[r]) : logged[r][i].tag = StageTag(stage)}

\* The messages logged from the announcement of the k-th stage entered up to the
\* announcement of the next one (or up to the end of the run).
StageSpan(r, k) ==
    LET from == CHOOSE i \in Announcements(r, stages[r][k]) : TRUE
        upto == IF k < Len(stages[r])
                THEN (CHOOSE i \in Announcements(r, stages[r][k + 1]) : TRUE) - 1
                ELSE Len(logged[r])
    IN from..upto

\* C11 as claimed: each stage entered emits exactly one progress message.
C11_OneMessagePerStage ==
    \A r \in Runs :
        TaskDone(r) =>
            \A k \in 1..Len(stages[r]) : Cardinality(StageSpan(r, k)) = 1

\* C11 amended: each stage entered is announced by exactly one message of its
\* own, put on the queue before any work of the stage begins, the announcements
\* coming in stage order; further messages (start, screenshot URL, errors,
\* report generated) are logged besides.
C11_StageAnnouncedBeforeWork ==
    \A r \in Runs :
        /\ \A k \in 1..Len(stages[r]) :
             /\ Cardinality(Announcements(r, stages[r][k])) = 1
             /\ \A j \in 1..(k - 1) :
                  \A a \in Announcements(r, stages[r][j]), b \in Announcements(r, stages[r][k]) :
                      a < b
        /\ \A w \in 1..Len(work[r]) :
             /\ \E k \in 1..Len(stages[r]) : stages[r][k] = work[r][w].stage
             /\ \A a \in Announcements(r, work[r][w].stage) : a <= work[r][w].at
             /\ work[r][w].at <= Len(logged[r])
        /\ \A i \in 1..Len(logged[r]) :
             \A st \in {"Capturing", "Analyzing", "Rendering", "Assembling"} :
                 logged[r][i].tag = StageTag(st) => \E k \in 1..Len(stages[r]) : stages[r][k] = st

\* C11 witness: a run has gone through the four stages and their work.
C11_Witness ==
    \E r \in Runs :
        /\ TaskDone(r)
        /\ stages[r] = AllStages
        /\ Len(work[r]) = 5
        /\ Len(logged[r]) = 7

\* The pipeline is inside one of its long-latency external operations.
InExternalCall(r) ==
    \/ tst[r] \in {"scrape", "vision"} /\ fut[r] = NoResult
    \/ tst[r] = "download"

\* C14: while the pipeline waits on the scrape, the screenshot download or the
\* vision request with messages not yet delivered, the bridge is able to run.
C14_BridgeRunsDuringExternalCall ==
    \A r \in Runs :
        (InExternalCall(r) /\ Len(out[r]) < Len(logged[r])) => ENABLED (LoopStep \/ Consume)

\* k * x and n, as two naturals counted in the same power of two.
Sides(x, k, n) ==
    IF x.e < 0 THEN <<TimesSmall(x.m, k), Shift(Digits(n), 0 - x.e)>>
    ELSE <<Shift(TimesSmall(x.m, k), x.e), Digits(n)>>

\* k * x = n
Exactly(x, k, n) == Sides(x, k, n)[1] = Sides(x, k, n)[2]

\* k * x <= n
AtMost(x, k, n) == LessEq(Sides(x, k, n)[1], Sides(x, k, n)[2])

Distance(a, b) == IF LessEq(a, b) THEN Minus(b, a) ELSE Minus(a, b)

\* | k * x - n | <= n * 2^-51
Within(x, k, n) ==
    LET s == Sides(x, k, n)
    IN  LessEq(Shift(Distance(s[1], s[2]), 51), s[2])

\* | 2 * x - (p + q) | <= (p + q) * 2^-50
NearMidpoint(x, p, q) ==
    LET e0 == Min(x.e, Min(p.e, q.e))
        sum == Plus(Shift(p.m, p.e - e0), Shift(q.m, q.e - e0))
    IN  LessEq(Shift(Distance(Shift(x.m, x.e - e0 + 1), sum), 50), sum)

\* C16 (as stated): every mapped pixel coordinate p of a normalized coordinate c
\* on a side of d pixels has 1000 * p = c * d, and the center of a label box has
\* 2000 * center = (min + max) * d.
C16_ExactMapping ==
    mapped.done =>
        /\ Exactly(mapped.lx, 1000, mapped.min * mapped.dim)
        /\ Exactly(mapped.lcx, 2000, (mapped.min + mapped.max) * mapped.dim)

\* C16 (amended): the mapped pixel coordinate and the center are the floats that
\* two roundings leave: they lie within a relative 2^-51 of c * d / 1000 and of
\* (min + max) * d / 2000, never beyond the side d, exactly on it or on 0 for
\* c = 1000 or c = 0, and the center is within a relative 2^-50 of the midpoint
\* of the mapped min and the mapped max.
C16_MappingWithinTolerance ==
    mapped.done =>
        /\ Within(mapped.lx, 1000, mapped.min * mapped.dim)
        /\ Within(mapped.lcx, 2000, (mapped.min + mapped.max) * mapped.dim)
        /\ AtMost(mapped.lx, 1, mapped.dim)
        /\ AtMost(mapped.lcx, 1, mapped.dim)
        /\ (mapped.min \in {0, 1000} => Exactly(mapped.lx, 1000, mapped.min * mapped.dim))
        /\ NearMidpoint(mapped.lcx, ToPixels(mapped.min, mapped.dim),
                        ToPixels(mapped.max, mapped.dim))

\* A box inside a real image whose left edge is not a float's multiple of 1/1000.
C16_Witness ==
    /\ mapped.done
    /\ 0 < mapped.min /\ mapped.min < mapped.max /\ mapped.max < 1000
    /\ mapped.dim > MaxDim
    /\ ~Exactly(mapped.lx, 1000, mapped.min * mapped.dim)

====
